---- MODULE Spec2Model ----
(***************************************************************************)
(* A model of the NeuroAI dashboard (src/app.py): the upload, diagnose and *)
(* slice callbacks around the process-wide DATA_CACHE, and the segmentation*)
(* metric functions.  Intensities are integers in units of 1e-6, so that   *)
(* the epsilon of get_slice_fig is the integer 1; ratios are kept as exact *)
(* fractions.                                                              *)
(***************************************************************************)
EXTENDS Integers, Sequences, FiniteSets, TLC

\* ------------------------------------------------------------------ bounds
\* Number of session ids uuid4 hands out in a run.
NumSessions == 2
\* Slice indices requested of get_slice_fig range over -IdxBound..IdxBound.
IdxBound == 2
\* Cap on the get_slice_fig calls per session that a counting run makes.
MaxCalls == 2
\* Number of voxels of the label volumes the metric functions are applied to.
MetricVoxels == 3
\* Number of request threads that run get_slice_fig side by side.
NumRequests == 2
\* Largest label of the volumes the Hausdorff distance is applied to.
HdLabelMax == 2

\* Number of pixels of the intensity slices the normalisation is applied to.
NormPixels == 3

\* ------------------------------------------------------- program constants
\* 1e-6 in units of 1e-6 (the epsilon added to the slice maximum).
Eps == 1
\* Slider maximum returned by a failed diagnose, and the layout's default.
SliderDefaultMax == 100

TEMP_DIR == "/mnt/data"

\* ------------------------------------------------------------------ values
\* Python's None and the empty string, as paths; a session path is
\* <<directory, base name>>.
None == <<>>
EmptyStr == <<"">>

SessionIds == 1..NumSessions
SessionPath(sid) == <<TEMP_DIR, sid>>
SessionPaths == {SessionPath(sid) : sid \in SessionIds}

\* Session ids are the base names of session paths; the empty base name
\* (of the path "") is the id 0, which uuid4 never hands out.
EmptyName == 0

\* os.path.basename of a path.
basename(path) == IF Len(path) = 2 THEN path[2] ELSE EmptyName

\* Mutant: only None is taken for a missing path.
Falsy_none_only(path) == path = None

\* Python truthiness of a path value: None and "" are falsy.
Falsy(path) == path = None \/ path = EmptyStr

\* 3-D arrays: a shape and a value per index triple (indices from 0).
Coords(shape) == (0..(shape[1] - 1)) \X (0..(shape[2] - 1)) \X (0..(shape[3] - 1))
Volume(shape, data) == [shape |-> shape, data |-> data]

\* The scans a user uploads.  What preprocessing and inference make of a
\* scan is fixed by the scan: the resampled intensity volume and the label
\* volume of the same shape.
Scans == {"A", "B"}
ScanShape(scan) ==
    IF scan = "A" THEN <<1, 2, 3>> ELSE IF scan = "B" THEN <<2, 1, 2>> ELSE <<4, 4, 4>>
IntensityA(p) == 1000 * (3 * p[2] + p[3])
LabelA(p) == (3 * p[2] + p[3]) % 4
IntensityB(p) == 5000
LabelB(p) == IF p = <<0, 0, 0>> THEN 1 ELSE 0
\* The scan "E": a 4 x 4 x 4 volume of intensity 0.5 throughout, with the
\* label 1 at voxel (0, 0, 0) and 0 elsewhere.
ExampleScans == {"E"}
IntensityE(p) == 500000
LabelE(p) == IF p = <<0, 0, 0>> THEN 1 ELSE 0
InferImg(scan) ==
    IF scan = "A" THEN Volume(ScanShape(scan), [p \in Coords(ScanShape(scan)) |-> IntensityA(p)])
    ELSE IF scan = "B" THEN Volume(ScanShape(scan), [p \in Coords(ScanShape(scan)) |-> IntensityB(p)])
    ELSE Volume(ScanShape(scan), [p \in Coords(ScanShape(scan)) |-> IntensityE(p)])
InferMask(scan) ==
    IF scan = "A" THEN Volume(ScanShape(scan), [p \in Coords(ScanShape(scan)) |-> LabelA(p)])
    ELSE IF scan = "B" THEN Volume(ScanShape(scan), [p \in Coords(ScanShape(scan)) |-> LabelB(p)])
    ELSE Volume(ScanShape(scan), [p \in Coords(ScanShape(scan)) |-> LabelE(p)])

\* Ground-truth uploads: "GA" a 3-D label volume of the shape of scan A's
\* prediction, "GB" a 4-D one whose first three axes have the shape of scan
\* B's prediction, "GX" bytes that nib.load does not read.
GtScans == {"GA", "GB", "GX"}
GtLabelA(p) == IF p[3] = 0 THEN 1 ELSE 0
GtLabelB(p) == IF p[2] = 0 /\ p[3] = 0 THEN 1 ELSE 0
Coords4(shape) == Coords(shape) \X (0..(shape[4] - 1))
\* nib.load(...).get_fdata().astype(np.int32) of a readable upload.
GtLoad(g) ==
    IF g = "GA" THEN Volume(<<1, 2, 3>>, [p \in Coords(<<1, 2, 3>>) |-> GtLabelA(p)])
    ELSE Volume(<<2, 1, 2, 1>>, [q \in Coords4(<<2, 1, 2, 1>>) |-> GtLabelB(q[1])])
GtReadable(g) == g \in {"GA", "GB"}
\* if len(gt.shape) == 4: gt = gt[:,:,:,0]
DropChannel(arr) ==
    IF Len(arr.shape) = 4
    THEN Volume(SubSeq(arr.shape, 1, 3),
                [p \in Coords(SubSeq(arr.shape, 1, 3)) |-> arr.data[<<p, 0>>]])
    ELSE arr
GtVolume(g) == DropChannel(GtLoad(g))
\* The voxels of a 3-D array in C order, as a sequence.
Flatten(vol) ==
    LET b == vol.shape[2]
        c == vol.shape[3]
    IN  [i \in 1..(vol.shape[1] * b * c) |->
            vol.data[<<(i - 1) \div (b * c), ((i - 1) \div c) % b, (i - 1) % c>>]]

\* A file of a session directory: absent, unreadable, or holding a value.
Absent == [st |-> "absent", val |-> <<>>]
Corrupt == [st |-> "corrupt", val |-> <<>>]
Holding(v) == [st |-> "ok", val |-> v]
NoFiles == [in |-> Absent, gt |-> Absent, img |-> Absent, mask |-> Absent, pred |-> Absent]

\* ------------------------------------------------------- array operations
\* A real number kept as the exact fraction num/den, den > 0.
Ratio(n, d) == [num |-> n, den |-> d]

\* Integer indexing along an axis of size n: Python wraps -n..-1 around and
\* raises IndexError outside -n..n-1.
IndexInBounds(idx, n) == idx >= 0 - n /\ idx < n
WrapIndex(idx, n) == IF idx < 0 THEN idx + n ELSE idx

\* 2-D arrays: a shape <<rows, columns>> and a value per index pair.
Coords2(shape) == (0..(shape[1] - 1)) \X (0..(shape[2] - 1))

\* img[idx, :, :], img[:, idx, :] or img[:, :, idx] (any dim but 0 and 1
\* slices the last axis); idx is already wrapped.
TakeSlice(vol, dim, idx) ==
    IF dim = 0 THEN
        [shape |-> <<vol.shape[2], vol.shape[3]>>,
         data |-> [q \in Coords2(<<vol.shape[2], vol.shape[3]>>) |-> vol.data[<<idx, q[1], q[2]>>]]]
    ELSE IF dim = 1 THEN
        [shape |-> <<vol.shape[1], vol.shape[3]>>,
         data |-> [q \in Coords2(<<vol.shape[1], vol.shape[3]>>) |-> vol.data[<<q[1], idx, q[2]>>]]]
    ELSE
        [shape |-> <<vol.shape[1], vol.shape[2]>>,
         data |-> [q \in Coords2(<<vol.shape[1], vol.shape[2]>>) |-> vol.data[<<q[1], q[2], idx>>]]]

\* The size of the axis that dim slices.
AxisSize(vol, dim) == IF dim = 0 THEN vol.shape[1] ELSE IF dim = 1 THEN vol.shape[2] ELSE vol.shape[3]

\* Mutant: the quarter-turn is clockwise, out[i, j] = m[R - 1 - j, i].
rot90_clockwise(m) ==
    [shape |-> <<m.shape[2], m.shape[1]>>,
     data |-> [q \in Coords2(<<m.shape[2], m.shape[1]>>) |-> m.data[<<m.shape[1] - 1 - q[2], q[1]>>]]]

\* np.rot90: an R x C array becomes C x R, out[i, j] = m[j, C - 1 - i].
rot90(m) ==
    [shape |-> <<m.shape[2], m.shape[1]>>,
     data |-> [q \in Coords2(<<m.shape[2], m.shape[1]>>) |-> m.data[<<q[2], m.shape[2] - 1 - q[1]>>]]]

\* np.max of a non-empty 2-D array.
ArrayMax(m) == CHOOSE v \in {m.data[q] : q \in DOMAIN m.data} : \A q \in DOMAIN m.data : m.data[q] <= v

\* The intensities of a preprocessed slice, in units of 1e-6: preprocessing
\* standardises the non-zero voxels to zero mean, so they are of either sign.
Intensities == {0 - 2000000, 0 - Eps, 0, 1000000}
IntensitySlices ==
    {[shape |-> <<1, NormPixels>>, data |-> d] : d \in [Coords2(<<1, NormPixels>>) -> Intensities]}
NoSlice == <<>>
NoNorm == <<>>

\* A quotient of floats: the exact fraction with a positive denominator, or
\* NotFinite (inf or nan) where the divisor is zero.
NotFinite == [num |-> 1, den |-> 0]
Divide(v, d) ==
    IF d = 0 THEN NotFinite ELSE IF d < 0 THEN Ratio(0 - v, 0 - d) ELSE Ratio(v, d)

\* max_val = np.max(img_slice); img_norm = img_slice / (max_val + 1e-6)
Normalize(m) == [q \in DOMAIN m.data |-> Divide(m.data[q], ArrayMax(m) + Eps)]

\* Overlay colours of labels 1, 2, 3 (red, blue, yellow), per channel.
OverlayColor(label) ==
    IF label = 1 THEN <<239, 68, 68>> ELSE IF label = 2 THEN <<59, 130, 246>> ELSE <<251, 191, 36>>

\* Mutant: the gray value is 255 * v, the intensity taken as it is.
Gray_unscaled(v, maxv) == Ratio(255 * v, 1000000)

\* The gray value of a pixel, 255 * v / (max + eps).
Gray(v, maxv) == Ratio(255 * v, maxv + Eps)
\* x * 0.4 + colour * 0.6
Blend(x, colour) == Ratio(4 * x.num + 6 * colour * x.den, 10 * x.den)

\* Mutant: the pass for a label also blends the pixels of higher labels.
BlendLabel_cumulative(x, label, label_id, ch) ==
    IF label >= label_id THEN Blend(x, OverlayColor(label_id)[ch]) ELSE x

\* One pass of the loop over colors.items(): the pixels whose label is
\* label_id are blended with its colour.
BlendLabel(x, label, label_id, ch) ==
    IF label = label_id THEN Blend(x, OverlayColor(label_id)[ch]) ELSE x
\* astype(np.uint8) of a value in 0..255: the fraction is cut off.
astype_uint8(x) == (x.num \div x.den) % 256

\* One channel of a pixel as uint8: the gray value after the passes for the
\* labels 1, 2 and 3.
Channel(v, maxv, label, ch) ==
    astype_uint8(BlendLabel(BlendLabel(BlendLabel(Gray(v, maxv), label, 1, ch), label, 2, ch),
                            label, 3, ch))

\* The RGBA image of a rotated intensity slice and its rotated label slice.
Colorize(islice, mslice) ==
    LET max_val == ArrayMax(islice)
    IN  [shape |-> islice.shape,
         px |-> [q \in DOMAIN islice.data |->
                    <<Channel(islice.data[q], max_val, mslice.data[q], 1),
                      Channel(islice.data[q], max_val, mslice.data[q], 2),
                      Channel(islice.data[q], max_val, mslice.data[q], 3),
                      255>>]]

\* ------------------------------------------------------------------ state
VARIABLES
    session,            \* dcc.Store "session": path of the last accepted MRI upload
    gt_session,         \* dcc.Store "gt-session": path the ground truth was saved under
    results,            \* dcc.Store "results": path of the last successful diagnosis
    btn_dl_disabled,    \* "btn-dl".disabled
    slider_max,         \* maxima of the axial, sagittal and coronal sliders
    progress_width,     \* "progress-bar-inner".style["width"], a string such as "10%"
    interval_disabled,  \* "progress-interval".disabled
    vals,               \* the four volume fields: "0.00", "Error" or "volumes"
    gt_tab,             \* the ground-truth panel: empty, an error or the metrics report
    files,              \* per session directory under TEMP_DIR, its files
    DATA_CACHE,         \* session id -> [img, mask], the process-wide cache
    last,               \* observer: the get_slice_fig call that was the last handler run
    calls,              \* observer: per session, the get_slice_fig calls made
    firstOK,            \* observer: the sessions whose first call found both arrays persisted
    loads,              \* observer: per session of firstOK, the np.load calls on img.npy and mask.npy
    pred_vol,           \* metrics: the predicted label volume, flattened
    gt_vol,             \* metrics: the ground-truth label volume, flattened
    label_id,           \* metrics: the label the row was computed for
    metrics_data,       \* metrics: the row of scores, NoRow before any was computed
    hausdorff,          \* metrics: the Hausdorff distance computed, NoDistance before
    req,                \* per request thread, the get_slice_fig call it is in
    img_slice,          \* normalisation: the rotated intensity slice
    img_norm,           \* normalisation: img_slice / (max_val + 1e-6), NoNorm before
    upload_status,      \* "upload-status".children: the status message on display
    triggered           \* the callbacks triggered and not yet run, each with its trigger

stores == <<session, gt_session, results>>
outputs == <<btn_dl_disabled, slider_max, progress_width, interval_disabled, vals, gt_tab>>
counters == <<calls, firstOK, loads>>
metric == <<pred_vol, gt_vol, label_id, metrics_data, hausdorff>>
norm == <<img_slice, img_norm>>
vars == <<session, gt_session, results, btn_dl_disabled, slider_max, progress_width,
          interval_disabled, vals, gt_tab, files, DATA_CACHE, last, calls, firstOK, loads,
          pred_vol, gt_vol, label_id, metrics_data, hausdorff, req,
          img_slice, img_norm, upload_status, triggered>>

Paths == {None, EmptyStr} \cup SessionPaths
\* Other paths a client can send as the "results" State: a session
\* directory written with a trailing separator, <<directory, name, "">>, and
\* a directory of the same name elsewhere.
OtherDir == "/srv/other"
TrailingPaths == {<<TEMP_DIR, sid, "">> : sid \in SessionIds}
ForeignPaths == {<<OtherDir, sid>> : sid \in SessionIds}
AliasPaths == TrailingPaths \cup ForeignPaths
Dims == {0, 1, 2}
Indices == (0 - IdxBound)..IdxBound

\* ---------------------------------------------------------- get_slice_fig
\* What a call returns: one of the three placeholder figures, or an image;
\* "raise" is an exception on its way out of the try block.
Outcome(kind, image) == [kind |-> kind, image |-> image]
NoPathFigure == Outcome("no_path", <<>>)
NoDataFigure == Outcome("no_data", <<>>)
ErrorFigure == Outcome("error", <<>>)
Raised == Outcome("raise", <<>>)
NoPair == [img |-> <<>>, mask |-> <<>>]

\* A file of the directory a path names (os.path.join(path, name)); only
\* session directories under TEMP_DIR hold files, and a trailing separator
\* names the same directory.
FileAt(fs, path, name) ==
    IF Len(path) >= 2 /\ path[1] = TEMP_DIR /\ path[2] \in SessionIds
    THEN fs[path[2]][name] ELSE Absent

\* Mutant: the loaded pair is not stored.
CacheInsert_dropped(cache, sid, pair) == cache

\* Mutant: a one-entry cache, the new pair replaces what was cached.
CacheInsert_single(cache, sid, pair) == [s \in {sid} |-> pair]

\* DATA_CACHE[session_id] = {'img': img, 'mask': mask}
\* Mutant: the two arrays are stored under each other's key.
CacheInsert_swapped(cache, sid, pair) ==
    [s \in DOMAIN cache \cup {sid} |->
        IF s = sid THEN [img |-> pair.mask, mask |-> pair.img] ELSE cache[s]]

CacheInsert(cache, sid, pair) ==
    [s \in (DOMAIN cache) \cup {sid} |-> IF s = sid THEN pair ELSE cache[s]]

\* What the lookup and the load hand on: st is "ready" (pair holds the two
\* arrays), "no_data" (the early return) or "raise"; img_loads and
\* mask_loads count the np.load calls, stat the os.path.exists call.
Loaded(st, cache, pair, hit, img_loads, mask_loads, stat) ==
    [st |-> st, cache |-> cache, pair |-> pair, hit |-> hit,
     img_loads |-> img_loads, mask_loads |-> mask_loads, stat |-> stat]

\* Mutant: a missing img.npy is remembered as an empty cache entry.
LoadStep_negative_entry(cache, fs, path) ==
    LET sid == basename(path)
        img == FileAt(fs, path, "img")
        mask == FileAt(fs, path, "mask")
    IN  IF sid \in DOMAIN cache THEN Loaded("ready", cache, cache[sid], TRUE, 0, 0, FALSE)
        ELSE IF img.st = "absent"
             THEN Loaded("no_data", CacheInsert(cache, sid, NoPair), NoPair, FALSE, 0, 0, TRUE)
        ELSE IF img.st # "ok" THEN Loaded("raise", cache, NoPair, FALSE, 1, 0, TRUE)
        ELSE IF mask.st # "ok" THEN Loaded("raise", cache, NoPair, FALSE, 1, 1, TRUE)
        ELSE Loaded("ready", CacheInsert(cache, sid, [img |-> img.val, mask |-> mask.val]),
                    [img |-> img.val, mask |-> mask.val], FALSE, 1, 1, TRUE)

\* Mutant: an entry is a hit only for the session directory it was loaded
\* from.
LoadStep_by_directory(cache, fs, path) ==
    LET sid == basename(path)
        img == FileAt(fs, path, "img")
        mask == FileAt(fs, path, "mask")
    IN  IF sid \in DOMAIN cache /\ path \in SessionPaths
        THEN Loaded("ready", cache, cache[sid], TRUE, 0, 0, FALSE)
        ELSE IF img.st = "absent" THEN Loaded("no_data", cache, NoPair, FALSE, 0, 0, TRUE)
        ELSE IF img.st # "ok" THEN Loaded("raise", cache, NoPair, FALSE, 1, 0, TRUE)
        ELSE IF mask.st # "ok" THEN Loaded("raise", cache, NoPair, FALSE, 1, 1, TRUE)
        ELSE Loaded("ready", CacheInsert(cache, sid, [img |-> img.val, mask |-> mask.val]),
                    [img |-> img.val, mask |-> mask.val], FALSE, 1, 1, TRUE)

\* The cache lookup and, on a miss, the load from disk.
LoadStep(cache, fs, path) ==
    LET sid == basename(path)
        img == FileAt(fs, path, "img")
        mask == FileAt(fs, path, "mask")
    IN  IF sid \in DOMAIN cache THEN Loaded("ready", cache, cache[sid], TRUE, 0, 0, FALSE)
        ELSE IF img.st = "absent" THEN Loaded("no_data", cache, NoPair, FALSE, 0, 0, TRUE)
        ELSE IF img.st # "ok" THEN Loaded("raise", cache, NoPair, FALSE, 1, 0, TRUE)
        ELSE IF mask.st # "ok" THEN Loaded("raise", cache, NoPair, FALSE, 1, 1, TRUE)
        ELSE Loaded("ready", CacheInsert(cache, sid, [img |-> img.val, mask |-> mask.val]),
                    [img |-> img.val, mask |-> mask.val], FALSE, 1, 1, TRUE)

\* Mutant: the index is clamped into the axis instead of raising.
SliceStep_clamped(pair, dim, idx) ==
    LET n == AxisSize(pair.img, dim)
        i == IF idx >= n THEN n - 1 ELSE IF idx < 0 - n THEN 0 ELSE WrapIndex(idx, n)
    IN  Outcome("image", Colorize(rot90(TakeSlice(pair.img, dim, i)),
                                  rot90(TakeSlice(pair.mask, dim, i))))

\* Slicing, rotation and colouring of a loaded pair.
SliceStep(pair, dim, idx) ==
    IF ~IndexInBounds(idx, AxisSize(pair.img, dim)) \/ ~IndexInBounds(idx, AxisSize(pair.mask, dim))
    THEN Raised
    ELSE Outcome("image",
                 Colorize(rot90(TakeSlice(pair.img, dim, WrapIndex(idx, AxisSize(pair.img, dim)))),
                          rot90(TakeSlice(pair.mask, dim, WrapIndex(idx, AxisSize(pair.mask, dim))))))

\* The path check, then the lookup and load: what get_slice_fig does
\* before it slices.  Nothing in it depends on dim or idx.
Lookup(cache, fs, path) ==
    IF Falsy(path) THEN Loaded("no_path", cache, NoPair, FALSE, 0, 0, FALSE)
    ELSE LoadStep(cache, fs, path)

\* What leaves the try block: a figure, or an exception.
TryBody(l, dim, idx) ==
    IF l.st = "ready" THEN SliceStep(l.pair, dim, idx)
    ELSE IF l.st = "no_data" THEN NoDataFigure
    ELSE Raised

\* Mutant: no handler, the exception leaves the call.
Catch_missing(out) == out

\* except Exception: the error figure is returned instead.
Catch(out) == IF out.kind = "raise" THEN ErrorFigure ELSE out

\* Mutant: the pair is stored after the slice is rendered, so a call that
\* raises leaves the cache as it was.
SliceCall_insert_last(cache, fs, path, dim, idx) ==
    LET l == Lookup(cache, fs, path)
        out == IF l.st = "no_path" THEN NoPathFigure ELSE Catch(TryBody(l, dim, idx))
    IN  [cache |-> IF out.kind = "image" THEN l.cache ELSE cache, hit |-> l.hit,
         img_loads |-> l.img_loads, mask_loads |-> l.mask_loads, stat |-> l.stat, out |-> out]

\* get_slice_fig(path, dim, idx) as a function of the cache and the disk:
\* the cache it leaves, the figure it returns, and its storage accesses.
SliceCall(cache, fs, path, dim, idx) ==
    LET l == Lookup(cache, fs, path)
    IN  [cache |-> l.cache, hit |-> l.hit, img_loads |-> l.img_loads,
         mask_loads |-> l.mask_loads, stat |-> l.stat,
         out |-> IF l.st = "no_path" THEN NoPathFigure ELSE Catch(TryBody(l, dim, idx))]

\* The handler's effect on the program's state.
get_slice_fig(path, dim, idx) ==
    /\ DATA_CACHE' = Lookup(DATA_CACHE, files, path).cache
    /\ UNCHANGED <<stores, outputs, files, metric, req, norm, upload_status, triggered>>

\* ------------------------------------------------------------- observers
\* What a run remembers of a get_slice_fig call: its path, the kind of
\* figure returned, whether the cache was hit, and the storage accesses.
CallRecord(path, c) ==
    [op |-> "get_slice_fig", path |-> path, kind |-> c.out.kind, hit |-> c.hit,
     img_loads |-> c.img_loads, mask_loads |-> c.mask_loads, stat |-> c.stat]
NoCall ==
    [op |-> "other", path |-> None, kind |-> "", hit |-> FALSE,
     img_loads |-> 0, mask_loads |-> 0, stat |-> FALSE]

\* Both arrays of the session a path names are on disk and loadable.
Persisted(fs, path) == FileAt(fs, path, "img").st = "ok" /\ FileAt(fs, path, "mask").st = "ok"

\* A run observes the slice calls in one of three ways: "call" records the
\* last call; "count" counts the calls per session (at most MaxCalls each),
\* notes the sessions whose first call found both arrays persisted, and
\* counts the np.load calls made for those sessions; "none" records nothing.
Observe(obs, path, dim, idx) ==
    LET l == Lookup(DATA_CACHE, files, path)
        sid == basename(path)
        first_ok == calls[sid] = 0 /\ Persisted(files, path)
    IN  IF obs = "call"
        THEN /\ last' = CallRecord(path, SliceCall(DATA_CACHE, files, path, dim, idx))
             /\ UNCHANGED counters
        ELSE IF obs = "count" /\ sid \in SessionIds THEN
            /\ calls[sid] < MaxCalls
            /\ calls' = [calls EXCEPT ![sid] = @ + 1]
            /\ firstOK' = IF first_ok THEN firstOK \cup {sid} ELSE firstOK
            /\ loads' = IF first_ok \/ sid \in firstOK
                        THEN [loads EXCEPT ![sid] = [img |-> @.img + l.img_loads,
                                                     mask |-> @.mask + l.mask_loads]]
                        ELSE loads
            /\ last' = NoCall
        ELSE last' = NoCall /\ UNCHANGED counters

\* The axis each view's callback passes to get_slice_fig: axial 2,
\* sagittal 0, coronal 1, in the order of slider_max.
ViewDims == <<2, 0, 1>>

\* The three slider callbacks; the slider value and the "results" State
\* are what the client sends.
update_axial_slice(obs, paths) ==
    \E path \in paths, idx \in Indices : get_slice_fig(path, ViewDims[1], idx) /\ Observe(obs, path, ViewDims[1], idx)
update_sagittal_slice(obs, paths) ==
    \E path \in paths, idx \in Indices : get_slice_fig(path, ViewDims[2], idx) /\ Observe(obs, path, ViewDims[2], idx)
update_coronal_slice(obs, paths) ==
    \E path \in paths, idx \in Indices : get_slice_fig(path, ViewDims[3], idx) /\ Observe(obs, path, ViewDims[3], idx)

\* ------------------------------------------- get_slice_fig, step by step
\* Request threads run get_slice_fig side by side; a thread is preempted
\* between the membership test, the load from disk and the insert.
Requests == 1..NumRequests
\* A thread outside get_slice_fig; ret tells whether its last call made an
\* insert ("inserted", with the path it was for) or not ("none").
Idle(path, ret) ==
    [pc |-> "idle", path |-> IF ret = "inserted" THEN path ELSE None, pair |-> NoPair,
     ret |-> IF ret = "inserted" THEN ret ELSE "none"]
InCall(pc, path, pair) == [pc |-> pc, path |-> path, pair |-> pair, ret |-> "none"]

\* The call begins: the path test, then the try block is entered.
rq_call(r) ==
    /\ req[r].pc = "idle"
    /\ \E path \in Paths :
          req' = [req EXCEPT ![r] = IF Falsy(path) THEN Idle(path, "no_path")
                                   ELSE InCall("check", path, NoPair)]
    /\ UNCHANGED <<stores, outputs, files, DATA_CACHE, last, counters, metric, norm, upload_status, triggered>>

\* if session_id in DATA_CACHE: a hit slices the cached pair and returns.
rq_check(r) ==
    /\ req[r].pc = "check"
    /\ req' = [req EXCEPT ![r] = IF basename(req[r].path) \in DOMAIN DATA_CACHE
                                 THEN Idle(req[r].path, "hit")
                                 ELSE InCall("load", req[r].path, NoPair)]
    /\ UNCHANGED <<stores, outputs, files, DATA_CACHE, last, counters, metric, norm, upload_status, triggered>>

\* os.path.exists and the two np.load calls.
rq_load(r) ==
    /\ req[r].pc = "load"
    /\ LET img == FileAt(files, req[r].path, "img")
           mask == FileAt(files, req[r].path, "mask")
       IN  req' = [req EXCEPT ![r] =
                      IF img.st = "absent" THEN Idle(req[r].path, "no_data")
                      ELSE IF img.st # "ok" \/ mask.st # "ok" THEN Idle(req[r].path, "error")
                      ELSE InCall("insert", req[r].path, [img |-> img.val, mask |-> mask.val])]
    /\ UNCHANGED <<stores, outputs, files, DATA_CACHE, last, counters, metric, norm, upload_status, triggered>>

\* DATA_CACHE[session_id] = {...}; the slice is then cut and returned.
rq_insert(r) ==
    /\ req[r].pc = "insert"
    /\ DATA_CACHE' = CacheInsert(DATA_CACHE, basename(req[r].path), req[r].pair)
    /\ req' = [req EXCEPT ![r] = Idle(req[r].path, "inserted")]
    /\ UNCHANGED <<stores, outputs, files, last, counters, metric, norm, upload_status, triggered>>

\* ------------------------------------------------------------ upload_file
\* uuid4 hands out an id no session directory has yet.
FreshId(fs, sid) ==
    /\ fs[sid].in.st = "absent"
    /\ \A t \in SessionIds : t < sid => fs[t].in.st # "absent"

upload_file(uploads) ==
    \E contents \in {""} \cup uploads, nifti_name \in BOOLEAN, io_error \in BOOLEAN :
        IF contents = "" THEN UNCHANGED vars
        ELSE /\ IF ~nifti_name
                THEN session' = None /\ files' = files /\ upload_status' = "Invalid file type"
                ELSE IF io_error
                THEN session' = None /\ files' = files /\ upload_status' = "Upload failed"
                ELSE \E sid \in SessionIds :
                        /\ FreshId(files, sid)
                        /\ session' = SessionPath(sid)
                        /\ files' = [files EXCEPT ![sid].in = Holding(contents)]
                        /\ upload_status' = "Successfully loaded"
             /\ last' = NoCall
             /\ UNCHANGED <<gt_session, results, outputs, DATA_CACHE, counters, metric, req, norm, triggered>>

\* ---------------------------------------------------- upload_ground_truth
upload_ground_truth(uploads) ==
    \E contents \in {""} \cup uploads, nifti_name \in BOOLEAN, io_error \in BOOLEAN :
        IF contents = "" THEN UNCHANGED vars
        ELSE /\ IF ~nifti_name \/ Falsy(session) \/ io_error
                THEN gt_session' = None /\ files' = files
                ELSE /\ gt_session' = session
                     /\ files' = [files EXCEPT ![basename(session)].gt = Holding(contents)]
             /\ last' = NoCall
             /\ UNCHANGED <<session, results, outputs, DATA_CACHE, counters, metric, req, norm, upload_status, triggered>>

\* ---------------------------------------------------------------- metrics
\* A score is kept as an exact fraction; 1.0 and 0.0 are the literals the
\* code returns.
One == Ratio(1, 1)
Zero == Ratio(0, 1)

\* The labels of a label volume.
Labels == 0..3
\* The label volumes, flattened to sequences of voxels.
LabelVolumes(n) == [1..n -> Labels]

\* pred == label, as a boolean array.
LabelMask(vol, label) == [i \in DOMAIN vol |-> vol[i] = label]
And(a, b) == [i \in DOMAIN a |-> a[i] /\ b[i]]
Or(a, b) == [i \in DOMAIN a |-> a[i] \/ b[i]]
Not(a) == [i \in DOMAIN a |-> ~a[i]]
\* np.sum of a boolean array.
Sum(a) == Cardinality({i \in DOMAIN a : a[i]})

\* Mutant: the factor 2 of the Dice score is dropped.
calculate_dice_score_unscaled(pred, gt, label) ==
    LET pred_mask == LabelMask(pred, label)
        gt_mask == LabelMask(gt, label)
        intersection == Sum(And(pred_mask, gt_mask))
        total == Sum(pred_mask) + Sum(gt_mask)
    IN  IF total = 0 THEN (IF intersection = 0 THEN One ELSE Zero)
        ELSE Ratio(intersection, total)

\* Mutant: the total is the size of the union of the two masks.
calculate_dice_score_union(pred, gt, label) ==
    LET pred_mask == LabelMask(pred, label)
        gt_mask == LabelMask(gt, label)
        intersection == Sum(And(pred_mask, gt_mask))
        total == Sum(Or(pred_mask, gt_mask))
    IN  IF total = 0 THEN (IF intersection = 0 THEN One ELSE Zero)
        ELSE Ratio(2 * intersection, total)

calculate_dice_score(pred, gt, label) ==
    LET pred_mask == LabelMask(pred, label)
        gt_mask == LabelMask(gt, label)
        intersection == Sum(And(pred_mask, gt_mask))
        total == Sum(pred_mask) + Sum(gt_mask)
    IN  IF total = 0 THEN (IF intersection = 0 THEN One ELSE Zero)
        ELSE Ratio(2 * intersection, total)

\* Mutant: an empty union scores 0.0.
calculate_iou_empty_zero(pred, gt, label) ==
    LET pred_mask == LabelMask(pred, label)
        gt_mask == LabelMask(gt, label)
        intersection == Sum(And(pred_mask, gt_mask))
        union == Sum(Or(pred_mask, gt_mask))
    IN  IF union = 0 THEN Zero ELSE Ratio(intersection, union)

\* Mutant: the union is taken to be the predicted mask.
calculate_iou_over_pred(pred, gt, label) ==
    LET pred_mask == LabelMask(pred, label)
        gt_mask == LabelMask(gt, label)
        intersection == Sum(And(pred_mask, gt_mask))
        union == Sum(pred_mask)
    IN  IF union = 0 THEN (IF intersection = 0 THEN One ELSE Zero)
        ELSE Ratio(intersection, union)

calculate_iou(pred, gt, label) ==
    LET pred_mask == LabelMask(pred, label)
        gt_mask == LabelMask(gt, label)
        intersection == Sum(And(pred_mask, gt_mask))
        union == Sum(Or(pred_mask, gt_mask))
    IN  IF union = 0 THEN (IF intersection = 0 THEN One ELSE Zero)
        ELSE Ratio(intersection, union)

\* Mutant: the true positives are counted over the predicted mask alone.
calculate_precision_recall_pred(pred, gt, label) ==
    LET pred_mask == LabelMask(pred, label)
        gt_mask == LabelMask(gt, label)
        tp == Sum(pred_mask)
        fp == Sum(And(pred_mask, Not(gt_mask)))
        fn == Sum(And(Not(pred_mask), gt_mask))
    IN  [precision |-> IF tp + fp > 0 THEN Ratio(tp, tp + fp) ELSE Zero,
         recall |-> IF tp + fn > 0 THEN Ratio(tp, tp + fn) ELSE Zero]

calculate_precision_recall(pred, gt, label) ==
    LET pred_mask == LabelMask(pred, label)
        gt_mask == LabelMask(gt, label)
        tp == Sum(And(pred_mask, gt_mask))
        fp == Sum(And(pred_mask, Not(gt_mask)))
        fn == Sum(And(Not(pred_mask), gt_mask))
    IN  [precision |-> IF tp + fp > 0 THEN Ratio(tp, tp + fp) ELSE Zero,
         recall |-> IF tp + fn > 0 THEN Ratio(tp, tp + fn) ELSE Zero]

\* Mutant: the specificity of a volume without negatives is 1.0.
calculate_sensitivity_specificity_vacuous(pred, gt, label) ==
    LET pred_mask == LabelMask(pred, label)
        gt_mask == LabelMask(gt, label)
        tp == Sum(And(pred_mask, gt_mask))
        tn == Sum(And(Not(pred_mask), Not(gt_mask)))
        fp == Sum(And(pred_mask, Not(gt_mask)))
        fn == Sum(And(Not(pred_mask), gt_mask))
    IN  [sensitivity |-> IF tp + fn > 0 THEN Ratio(tp, tp + fn) ELSE Zero,
         specificity |-> IF tn + fp > 0 THEN Ratio(tn, tn + fp) ELSE One]

calculate_sensitivity_specificity(pred, gt, label) ==
    LET pred_mask == LabelMask(pred, label)
        gt_mask == LabelMask(gt, label)
        tp == Sum(And(pred_mask, gt_mask))
        tn == Sum(And(Not(pred_mask), Not(gt_mask)))
        fp == Sum(And(pred_mask, Not(gt_mask)))
        fn == Sum(And(Not(pred_mask), gt_mask))
    IN  [sensitivity |-> IF tp + fn > 0 THEN Ratio(tp, tp + fn) ELSE Zero,
         specificity |-> IF tn + fp > 0 THEN Ratio(tn, tn + fp) ELSE Zero]

\* No row computed yet.
NoRow == <<>>

\* The shape of the volumes the Hausdorff distance is applied to, and the
\* index triple of the i-th voxel in C order.
HdShape == <<1, 2, 2>>
Unravel(i, shape) ==
    <<(i - 1) \div (shape[2] * shape[3]), ((i - 1) \div shape[3]) % shape[2], (i - 1) % shape[3]>>
\* np.argwhere of a mask: the index triples where it holds.
argwhere(a) == {Unravel(i, HdShape) : i \in {k \in DOMAIN a : a[k]}}
\* The squared Euclidean distance of two index triples.
SqDist(p, q) ==
    (p[1] - q[1]) * (p[1] - q[1]) + (p[2] - q[2]) * (p[2] - q[2]) + (p[3] - q[3]) * (p[3] - q[3])
SetMax(S) == CHOOSE x \in S : \A y \in S : y <= x
SetMin(S) == CHOOSE x \in S : \A y \in S : x <= y
\* directed_hausdorff(u, v)[0], squared: the farthest any point of u is
\* from its nearest point of v.
directed_hausdorff(u, v) == SetMax({SetMin({SqDist(a, b) : b \in v}) : a \in u})

\* A distance: +inf, or the square root of sq.
Infinite == [inf |-> TRUE, sq |-> 0]
Finite(sq) == [inf |-> FALSE, sq |-> sq]
NoDistance == <<>>

\* Mutant: only the forward directed distance is returned.
calculate_hausdorff_distance_forward(pred, gt, label, percentile) ==
    LET pred_mask == LabelMask(pred, label)
        gt_mask == LabelMask(gt, label)
    IN  IF Sum(pred_mask) = 0 \/ Sum(gt_mask) = 0 THEN Infinite
        ELSE Finite(directed_hausdorff(argwhere(pred_mask), argwhere(gt_mask)))

\* Mutant: below the 95th percentile the farthest points are left out, and
\* the least of the nearest-point distances is returned.
calculate_hausdorff_distance_truncated(pred, gt, label, percentile) ==
    LET pred_mask == LabelMask(pred, label)
        gt_mask == LabelMask(gt, label)
    IN  IF Sum(pred_mask) = 0 \/ Sum(gt_mask) = 0 THEN Infinite
        ELSE LET pred_points == argwhere(pred_mask)
                 gt_points == argwhere(gt_mask)
                 forward == directed_hausdorff(pred_points, gt_points)
                 backward == directed_hausdorff(gt_points, pred_points)
                 nearest == {SetMin({SqDist(a, b) : b \in gt_points}) : a \in pred_points}
                            \cup {SetMin({SqDist(a, b) : b \in pred_points}) : a \in gt_points}
             IN  IF percentile >= 95
                 THEN Finite(IF forward >= backward THEN forward ELSE backward)
                 ELSE Finite(SetMin(nearest))

calculate_hausdorff_distance(pred, gt, label, percentile) ==
    LET pred_mask == LabelMask(pred, label)
        gt_mask == LabelMask(gt, label)
    IN  IF Sum(pred_mask) = 0 \/ Sum(gt_mask) = 0 THEN Infinite
        ELSE LET pred_points == argwhere(pred_mask)
                 gt_points == argwhere(gt_mask)
                 forward == directed_hausdorff(pred_points, gt_points)
                 backward == directed_hausdorff(gt_points, pred_points)
             IN  Finite(IF forward >= backward THEN forward ELSE backward)

\* The region names, by label id.
RegionNames == <<"Necrotic Core", "Edema", "Enhancing">>
RegionName(label) == IF label \in 1..3 THEN RegionNames[label] ELSE "Background"

\* One row of metrics_data: the name and the six scores of a label.
MetricRow(pred, gt, label) ==
    LET pr == calculate_precision_recall(pred, gt, label)
        ss == calculate_sensitivity_specificity(pred, gt, label)
    IN  [name |-> RegionName(label),
         dice |-> calculate_dice_score(pred, gt, label),
         iou |-> calculate_iou(pred, gt, label),
         precision |-> pr.precision, recall |-> pr.recall,
         sensitivity |-> ss.sensitivity, specificity |-> ss.specificity]

\* metrics_data: the rows of the labels 1, 2, 3, in that order.
MetricsData(pred, gt) == [label \in 1..3 |-> MetricRow(pred, gt, label)]

\* a < b on scores.
Less(a, b) == a.num * b.den < b.num * a.den

\* Mutant: max keeps the last of equal items.
RECURSIVE PyMax_last(_, _, _)
PyMax_last(md, i, best) ==
    IF i > Len(md) THEN best
    ELSE PyMax_last(md, i + 1, IF Less(md[i].dice, best.dice) THEN best ELSE md[i])

\* max(metrics_data, key=dice): the scan keeps an item until a strictly
\* greater one comes; min likewise with a strictly smaller one.
RECURSIVE PyMax(_, _, _)
PyMax(md, i, best) ==
    IF i > Len(md) THEN best
    ELSE PyMax(md, i + 1, IF Less(best.dice, md[i].dice) THEN md[i] ELSE best)
RECURSIVE PyMin(_, _, _)
PyMin(md, i, best) ==
    IF i > Len(md) THEN best
    ELSE PyMin(md, i + 1, IF Less(md[i].dice, best.dice) THEN md[i] ELSE best)

\* The three panels of the ground-truth tab.  gt_of is the directory the
\* ground truth was read from, calls the number of metric-function calls
\* made for the panel.
EmptyGtTab ==
    [kind |-> "empty", reason |-> "", gt_of |-> None, calls |-> 0, best |-> "", worst |-> ""]
GtError(reason) ==
    [kind |-> "error", reason |-> reason, gt_of |-> None, calls |-> 0, best |-> "", worst |-> ""]
GtReport(pred, gt, gt_path) ==
    LET md == MetricsData(pred, gt)
    IN  [kind |-> "metrics", reason |-> "", gt_of |-> gt_path, calls |-> 4 * Len(md),
         best |-> PyMax(md, 2, md[1]).name, worst |-> PyMin(md, 2, md[1]).name]

\* One row computed for a pair of label volumes.
metrics_row ==
    \E label \in Labels :
        /\ label_id' = label
        /\ metrics_data' = MetricRow(pred_vol, gt_vol, label)
        /\ UNCHANGED <<stores, outputs, files, DATA_CACHE, last, counters, pred_vol, gt_vol, hausdorff, req, norm, upload_status, triggered>>

\* The percentile arguments of a call: the default, 95, and another.
Percentiles == {50, 95}

\* The Hausdorff distance computed for a pair of label volumes.
hausdorff_distance ==
    \E label \in 0..HdLabelMax, percentile \in Percentiles :
        /\ hausdorff' = [label |-> label, percentile |-> percentile,
                         d |-> calculate_hausdorff_distance(pred_vol, gt_vol, label, percentile)]
        /\ UNCHANGED <<stores, outputs, files, DATA_CACHE, last, counters,
                       pred_vol, gt_vol, label_id, metrics_data, req, norm, upload_status, triggered>>

\* The report computed for a pair of label volumes.
metrics_report ==
    /\ gt_tab' = GtReport(pred_vol, gt_vol, None)
    /\ UNCHANGED <<stores, btn_dl_disabled, slider_max, progress_width, interval_disabled, vals,
                   files, DATA_CACHE, last, counters, metric, req, norm, upload_status, triggered>>

\* The normalisation of get_slice_fig applied to an intensity slice.
normalize ==
    /\ img_norm = NoNorm
    /\ img_norm' = Normalize(img_slice)
    /\ UNCHANGED <<stores, outputs, files, DATA_CACHE, last, counters, metric, req, img_slice, upload_status, triggered>>

\* --------------------------------------------------------------- progress
\* Strings are sequences of characters.  str(n) is the decimal numeral of
\* n >= 0, int(s) the number a numeral denotes, rstrip(s, ch) is s without
\* its trailing ch's, and Percent(n) is f"{n}%".
DigitChars == <<"0", "1", "2", "3", "4", "5", "6", "7", "8", "9">>
DigitOf(c) == (CHOOSE k \in 1..10 : DigitChars[k] = c) - 1
RECURSIVE str(_)
str(n) == IF n < 10 THEN <<DigitChars[n + 1]>> ELSE Append(str(n \div 10), DigitChars[(n % 10) + 1])
RECURSIVE int(_)
int(s) ==
    IF Len(s) = 1 THEN DigitOf(s[1])
    ELSE 10 * int(SubSeq(s, 1, Len(s) - 1)) + DigitOf(s[Len(s)])
RECURSIVE rstrip(_, _)
rstrip(s, ch) ==
    IF s # <<>> /\ s[Len(s)] = ch THEN rstrip(SubSeq(s, 1, Len(s) - 1), ch) ELSE s
Percent(n) == str(n) \o <<"%">>

no_update == <<"no_update">>

\* Mutant: a tick raises the width by 5 up to 100.
AnimateOut_uncapped(triggered_id, current_width) ==
    LET w == int(rstrip(current_width, "%"))
    IN  IF triggered_id = "btn-diagnose" THEN Percent(10)
        ELSE IF triggered_id = "progress-interval" /\ w < 100
        THEN Percent(IF w + 5 < 100 THEN w + 5 ELSE 100)
        ELSE no_update

\* What animate_progress returns for the width of the bar: "10%" for a
\* click, the width raised by 5 up to 90 for a tick below 90, and otherwise
\* no_update.
AnimateOut(triggered_id, current_width) ==
    LET current == int(rstrip(current_width, "%"))
    IN  IF triggered_id = "btn-diagnose" THEN Percent(10)
        ELSE IF triggered_id = "progress-interval" /\ current < 90
        THEN Percent(IF current + 5 < 90 THEN current + 5 ELSE 90)
        ELSE no_update

\* The callbacks a click of "btn-diagnose" triggers, and the one a tick of
\* "progress-interval" triggers.
ClickCallbacks ==
    {<<"animate_progress", "btn-diagnose">>, <<"start_timer", "btn-diagnose">>,
     <<"diagnose", "btn-diagnose">>}
TickCallback == <<"animate_progress", "progress-interval">>

\* The user clicks Start Diagnosis; no callback of an earlier click is
\* still to run.
click_diagnose ==
    /\ triggered \cap ClickCallbacks = {}
    /\ triggered' = triggered \cup ClickCallbacks
    /\ UNCHANGED <<stores, outputs, files, DATA_CACHE, last, counters, metric, req, norm,
                   upload_status>>

\* The enabled timer fires: n_intervals changes.
interval_tick ==
    /\ ~interval_disabled
    /\ TickCallback \notin triggered
    /\ triggered' = triggered \cup {TickCallback}
    /\ UNCHANGED <<stores, outputs, files, DATA_CACHE, last, counters, metric, req, norm,
                   upload_status>>

animate_progress ==
    \E cb \in triggered :
        /\ cb[1] = "animate_progress"
        /\ LET out == AnimateOut(cb[2], progress_width)
           IN  progress_width' = IF out = no_update THEN progress_width ELSE out
        /\ triggered' = triggered \ {cb}
        /\ UNCHANGED <<stores, btn_dl_disabled, slider_max, interval_disabled, vals, gt_tab,
                       files, DATA_CACHE, last, counters, metric, req, norm, upload_status>>

\* start_timer(n): n counts the clicks, so it is not 0.
start_timer ==
    /\ <<"start_timer", "btn-diagnose">> \in triggered
    /\ interval_disabled' = FALSE
    /\ triggered' = triggered \ {<<"start_timer", "btn-diagnose">>}
    /\ UNCHANGED <<stores, btn_dl_disabled, slider_max, progress_width, vals, gt_tab,
                   files, DATA_CACHE, last, counters, metric, req, norm, upload_status>>

\* --------------------------------------------------------------- diagnose
\* Where a run of diagnose raises: before anything is written (model load,
\* preprocessing, inference), in one of the three saves, after them (chart
\* building), or nowhere.
FailPoints == {"pre", "img", "mask", "pred", "post", "none"}

\* Mutant: a ground truth of another shape is passed over in silence.
GtTab_mismatch_ignored(fs, gt_path, mask) ==
    IF ~Falsy(gt_path) /\ FileAt(fs, gt_path, "gt").st # "absent"
    THEN LET f == FileAt(fs, gt_path, "gt")
         IN  IF f.st # "ok" \/ ~GtReadable(f.val) THEN GtError("load")
             ELSE IF GtVolume(f.val).shape # mask.shape THEN EmptyGtTab
             ELSE GtReport(Flatten(mask), Flatten(GtVolume(f.val)), gt_path)
    ELSE EmptyGtTab

\* The ground-truth panel of a diagnosis that got that far.
GtTab(fs, gt_path, mask) ==
    IF ~Falsy(gt_path) /\ FileAt(fs, gt_path, "gt").st # "absent"
    THEN LET f == FileAt(fs, gt_path, "gt")
         IN  IF f.st # "ok" \/ ~GtReadable(f.val) THEN GtError("load")
             ELSE IF GtVolume(f.val).shape # mask.shape THEN GtError("shape")
             ELSE GtReport(Flatten(mask), Flatten(GtVolume(f.val)), gt_path)
    ELSE EmptyGtTab

\* Mutant: a run that raises nowhere does not write pred.nii.gz.
SavedFiles_without_pred(dir, stage, truncated, orig, mask) ==
    LET failed(f) == IF truncated THEN Corrupt ELSE f
    IN  IF stage = "pre" THEN dir
        ELSE IF stage = "img" THEN [dir EXCEPT !.img = failed(@)]
        ELSE IF stage = "mask" THEN [dir EXCEPT !.img = Holding(orig), !.mask = failed(@)]
        ELSE IF stage = "pred" THEN [dir EXCEPT !.img = Holding(orig), !.mask = Holding(mask),
                                                 !.pred = failed(@)]
        ELSE [dir EXCEPT !.img = Holding(orig), !.mask = Holding(mask)]

\* The session directory after the saves of a run that raises at `stage`;
\* a failed save leaves its file as it was or truncated.
SavedFiles(dir, stage, truncated, orig, mask) ==
    LET failed(f) == IF truncated THEN Corrupt ELSE f
    IN  IF stage = "pre" THEN dir
        ELSE IF stage = "img" THEN [dir EXCEPT !.img = failed(@)]
        ELSE IF stage = "mask" THEN [dir EXCEPT !.img = Holding(orig), !.mask = failed(@)]
        ELSE IF stage = "pred" THEN [dir EXCEPT !.img = Holding(orig), !.mask = Holding(mask),
                                                 !.pred = failed(@)]
        ELSE [dir EXCEPT !.img = Holding(orig), !.mask = Holding(mask), !.pred = Holding(mask)]

\* Mutant: the maxima are returned in the order of the array's axes.
SliderMaxima_axis_order(orig) == <<orig.shape[1] - 1, orig.shape[2] - 1, orig.shape[3] - 1>>

\* orig.shape[2] - 1, orig.shape[0] - 1, orig.shape[1] - 1: the maxima of
\* the axial, sagittal and coronal sliders.
SliderMaxima(orig) == <<orig.shape[3] - 1, orig.shape[1] - 1, orig.shape[2] - 1>>

\* Mutant: the handler returns the error response and leaves the progress
\* timer running.
DiagnoseExcept_timer_on(saved) ==
    [kind |-> "return", files |-> saved, vals |-> "Error",
     slider_max |-> <<SliderDefaultMax, SliderDefaultMax, SliderDefaultMax>>,
     results |-> None, btn_dl_disabled |-> TRUE, progress_width |-> Percent(0),
     interval_disabled |-> FALSE, upload_status |-> "Diagnosis failed",
     gt_tab |-> EmptyGtTab]

\* except Exception: the response returned for an exception of the try
\* block, with the files as the run left them.
DiagnoseExcept(saved) ==
    [kind |-> "return", files |-> saved, vals |-> "Error",
     slider_max |-> <<SliderDefaultMax, SliderDefaultMax, SliderDefaultMax>>,
     results |-> None, btn_dl_disabled |-> TRUE, progress_width |-> Percent(0),
     interval_disabled |-> TRUE, upload_status |-> "Diagnosis failed",
     gt_tab |-> EmptyGtTab]

\* What a run of diagnose that raises at `stage` returns and leaves on disk.
DiagnoseOut(fs, path, gt_path, stage, truncated) ==
    LET sid == basename(path)
        orig == InferImg(fs[sid].in.val)
        mask == InferMask(fs[sid].in.val)
        saved == [fs EXCEPT ![sid] = SavedFiles(@, stage, truncated, orig, mask)]
    IN  IF stage = "none"
        THEN [kind |-> "return", files |-> saved, vals |-> "volumes",
              slider_max |-> SliderMaxima(orig),
              results |-> path, btn_dl_disabled |-> FALSE, progress_width |-> Percent(100),
              interval_disabled |-> TRUE, upload_status |-> "Analysis complete",
              gt_tab |-> GtTab(fs, gt_path, mask)]
        ELSE DiagnoseExcept(saved)

diagnose ==
    IF Falsy(session)
    THEN /\ triggered' = triggered \ {<<"diagnose", "btn-diagnose">>}
         /\ UNCHANGED <<stores, outputs, files, DATA_CACHE, last, counters, metric, req, norm,
                        upload_status>>
    ELSE \E stage \in FailPoints, truncated \in BOOLEAN :
        LET d == DiagnoseOut(files, session, gt_session, stage, truncated)
        IN  /\ files' = d.files
            /\ vals' = d.vals
            /\ slider_max' = d.slider_max
            /\ results' = d.results
            /\ btn_dl_disabled' = d.btn_dl_disabled
            /\ progress_width' = d.progress_width
            /\ gt_tab' = d.gt_tab
            /\ interval_disabled' = d.interval_disabled
            /\ upload_status' = d.upload_status
            /\ last' = NoCall
            /\ triggered' = triggered \ {<<"diagnose", "btn-diagnose">>}
            /\ UNCHANGED <<session, gt_session, DATA_CACHE, counters, metric, req, norm>>

\* ---------------------------------------------------------- download_mask
download_mask ==
    IF Falsy(results) THEN UNCHANGED vars
    ELSE last' = NoCall /\ UNCHANGED <<stores, outputs, files, DATA_CACHE, counters, metric, req, norm, upload_status, triggered>>

\* --------------------------------------------------------- specifications
\* The dashboard after the layout is built and before any callback.
InitDashboard ==
    /\ session = None
    /\ gt_session = None
    /\ results = None
    /\ btn_dl_disabled = TRUE
    /\ slider_max = <<SliderDefaultMax, SliderDefaultMax, SliderDefaultMax>>
    /\ progress_width = Percent(0)
    /\ interval_disabled = TRUE
    /\ vals = "0.00"
    /\ gt_tab = EmptyGtTab
    /\ files = [sid \in SessionIds |-> NoFiles]
    /\ DATA_CACHE = <<>>
    /\ last = NoCall
    /\ calls = [sid \in SessionIds |-> 0]
    /\ loads = [sid \in SessionIds |-> [img |-> 0, mask |-> 0]]
    /\ firstOK = {}
    /\ req = [r \in Requests |-> Idle(None, "none")]
    /\ upload_status = ""
    /\ triggered = {}

Init ==
    /\ InitDashboard
    /\ pred_vol = <<>>
    /\ gt_vol = <<>>
    /\ label_id = 0
    /\ metrics_data = NoRow
    /\ hausdorff = NoDistance
    /\ img_slice = NoSlice
    /\ img_norm = NoNorm

\* The dashboard: every callback, the slice calls unobserved.
Next ==
    \/ upload_file(Scans)
    \/ upload_ground_truth({"GA"})
    \/ diagnose
    \/ update_axial_slice("none", Paths)
    \/ update_sagittal_slice("none", Paths)
    \/ update_coronal_slice("none", Paths)
    \/ download_mask

Spec == Init /\ [][Next]_vars

\* The slice views of uploaded and diagnosed sessions, each call recorded.
CallNext ==
    \/ upload_file(Scans)
    \/ diagnose
    \/ update_axial_slice("call", Paths)
    \/ update_sagittal_slice("call", Paths)
    \/ update_coronal_slice("call", Paths)
    \/ download_mask

CallSpec == Init /\ [][CallNext]_vars

\* The same, with the calls and loads counted per session.
CountNext ==
    \/ upload_file(Scans)
    \/ diagnose
    \/ update_axial_slice("count", Paths)
    \/ update_sagittal_slice("count", Paths)
    \/ update_coronal_slice("count", Paths)
    \/ download_mask

CountSpec == Init /\ [][CountNext]_vars

\* Uploads, ground-truth uploads of every kind and diagnoses, no slice view.
GtNext ==
    \/ upload_file(Scans)
    \/ upload_ground_truth(GtScans)
    \/ diagnose
    \/ download_mask

GtSpec == Init /\ [][GtNext]_vars

\* Uploads and diagnoses, with the request threads stepping through
\* get_slice_fig.
RaceNext ==
    \/ upload_file(Scans)
    \/ diagnose
    \/ \E r \in Requests : rq_call(r)
    \/ \E r \in Requests : rq_check(r)
    \/ \E r \in Requests : rq_load(r)
    \/ \E r \in Requests : rq_insert(r)

RaceSpec == Init /\ [][RaceNext]_vars

\* The metric functions applied to every pair of label volumes of one shape.
MetricInit ==
    /\ InitDashboard
    /\ \E n \in 0..MetricVoxels : pred_vol \in LabelVolumes(n) /\ gt_vol \in LabelVolumes(n)
    /\ label_id = 0
    /\ metrics_data = NoRow
    /\ hausdorff = NoDistance
    /\ img_slice = NoSlice
    /\ img_norm = NoNorm

MetricNext == metrics_row

MetricSpec == MetricInit /\ [][MetricNext]_vars

\* The report of the ground-truth tab for every such pair.
ReportNext == metrics_report

ReportSpec == MetricInit /\ [][ReportNext]_vars

\* The Hausdorff distance applied to every pair of label volumes of HdShape.
HausdorffInit ==
    /\ InitDashboard
    /\ pred_vol \in [1..(HdShape[1] * HdShape[2] * HdShape[3]) -> 0..HdLabelMax]
    /\ gt_vol \in [1..(HdShape[1] * HdShape[2] * HdShape[3]) -> 0..HdLabelMax]
    /\ label_id = 0
    /\ metrics_data = NoRow
    /\ hausdorff = NoDistance
    /\ img_slice = NoSlice
    /\ img_norm = NoNorm

HausdorffNext == hausdorff_distance

HausdorffSpec == HausdorffInit /\ [][HausdorffNext]_vars

\* Uploads and diagnoses of the scan "E" and its axial slice view, each call
\* recorded.
ExampleNext ==
    \/ upload_file(ExampleScans)
    \/ diagnose
    \/ update_axial_slice("call", Paths)

ExampleSpec == Init /\ [][ExampleNext]_vars

\* Uploads, diagnoses and slice views whose path is any the client can
\* send.
AliasNext ==
    \/ upload_file(Scans)
    \/ diagnose
    \/ update_axial_slice("none", Paths \cup AliasPaths)
    \/ update_sagittal_slice("none", Paths \cup AliasPaths)

AliasSpec == Init /\ [][AliasNext]_vars

\* Uploads and the progress bar: the click, the callbacks it triggers, run
\* in any order, and the timer's ticks.
ProgressNext ==
    \/ upload_file(ExampleScans)
    \/ click_diagnose
    \/ animate_progress
    \/ start_timer
    \/ interval_tick
    \/ <<"diagnose", "btn-diagnose">> \in triggered /\ diagnose

ProgressSpec == Init /\ [][ProgressNext]_vars

\* The normalisation applied to every intensity slice of NormPixels pixels.
NormInit ==
    /\ InitDashboard
    /\ pred_vol = <<>>
    /\ gt_vol = <<>>
    /\ label_id = 0
    /\ metrics_data = NoRow
    /\ hausdorff = NoDistance
    /\ img_slice \in IntensitySlices
    /\ img_norm = NoNorm

NormNext == normalize

NormSpec == NormInit /\ [][NormNext]_vars

\* ================================================================= claims
Call(path, dim, idx) == SliceCall(DATA_CACHE, files, path, dim, idx)

\* C1: a session whose first get_slice_fig call found both arrays persisted
\* has had img.npy and mask.npy loaded exactly once each, by that call,
\* however many calls followed; it is cached, and any further call for it,
\* for any axis and index, is a hit that loads nothing.
C1_MissThenHit ==
    \A sid \in firstOK :
        /\ loads[sid] = [img |-> 1, mask |-> 1]
        /\ sid \in DOMAIN DATA_CACHE
        /\ LET l == Lookup(DATA_CACHE, files, SessionPath(sid))
           IN  l.hit /\ l.img_loads = 0 /\ l.mask_loads = 0

\* A session loaded by its first call has been called for again.
C1_Witness == \E sid \in firstOK : calls[sid] >= 2 /\ loads[sid].img = 1

\* C2 as stated: a call repeated at once with the same arguments returns
\* the same figure, and the repetition makes no np.load call.
C2_RepeatReadsNothing ==
    LET P(path, dim, idx) ==
            LET c1 == Call(path, dim, idx)
                c2 == SliceCall(c1.cache, files, path, dim, idx)
            IN  c2.out = c1.out /\ c2.img_loads = 0 /\ c2.mask_loads = 0
    IN  \A path \in Paths, dim \in Dims, idx \in Indices : P(path, dim, idx)

\* C2 amended: the repetition returns the same figure and leaves the cache
\* as the first call left it; it makes no np.load call when the path is
\* empty, the session is cached, img.npy is absent, or both arrays load;
\* when img.npy is there but the pair does not load (mask.npy missing, a
\* truncated file), the repetition calls np.load on img.npy again.
C2_RepeatDeterministic ==
    LET P(path, dim, idx) ==
            LET c1 == Call(path, dim, idx)
                c2 == SliceCall(c1.cache, files, path, dim, idx)
                quiet == \/ Falsy(path)
                         \/ basename(path) \in DOMAIN DATA_CACHE
                         \/ FileAt(files, path, "img").st = "absent"
                         \/ Persisted(files, path)
            IN  /\ c2.out = c1.out
                /\ c2.cache = c1.cache
                /\ IF quiet THEN c2.img_loads = 0 /\ c2.mask_loads = 0
                   ELSE c2.img_loads = 1 /\ c1.img_loads = 1
    IN  \A path \in Paths, dim \in Dims, idx \in Indices : P(path, dim, idx)

\* A call served an image from the cache: the session was loaded by an
\* earlier call.
C2_Witness == last.op = "get_slice_fig" /\ last.hit /\ last.kind = "image"

\* A step keeps every cached entry, with its contents.
C3_CacheKept ==
    \A sid \in DOMAIN DATA_CACHE : sid \in DOMAIN DATA_CACHE' /\ DATA_CACHE'[sid] = DATA_CACHE[sid]
\* A call that hits the cache leaves the mapping as it is.
C3_HitKeepsCache ==
    \A path \in Paths :
        LET l == Lookup(DATA_CACHE, files, path) IN l.hit => l.cache = DATA_CACHE
\* C3: every step of every callback (hits, misses for other sessions,
\* uploads, diagnose) keeps every cached entry with its contents, so the set
\* of cached ids only grows; and a call that hits the cache leaves the
\* whole mapping as it is.
C3_EntriesNeverChange == [][C3_CacheKept /\ C3_HitKeepsCache]_vars

\* Two sessions are cached, and the first has since been diagnosed again by
\* a run that left its img.npy truncated.
C3_Witness ==
    /\ DOMAIN DATA_CACHE = SessionIds
    /\ \E sid \in SessionIds : files[sid].img.st = "corrupt"
    /\ ~Falsy(gt_session)

\* C4: for the path None and the path "", every axis and every index, the
\* call returns the no-path placeholder, makes no os.path.exists and no
\* np.load call, and leaves the cache as it is.
C4_NoPathPlaceholder ==
    \A path \in {None, EmptyStr}, dim \in Dims, idx \in Indices :
        LET c == Call(path, dim, idx)
        IN  /\ c.out = NoPathFigure
            /\ ~c.stat /\ c.img_loads = 0 /\ c.mask_loads = 0
            /\ c.cache = DATA_CACHE

\* A call with an empty path has been made while a session was cached.
C4_Witness ==
    /\ last.op = "get_slice_fig" /\ Falsy(last.path)
    /\ last.kind = "no_path" /\ ~last.stat
    /\ DATA_CACHE # <<>>

\* C5: for a session that is not cached and whose img.npy is absent, every
\* call returns the empty figure of the early return, makes no np.load call
\* and leaves the cache as it is; and for a session that is not cached and
\* whose arrays are both on disk (inference has written them since), the
\* call is a miss that loads both and caches the pair.
C5_MissingImage ==
    \A path \in SessionPaths, dim \in Dims, idx \in Indices :
        LET c == Call(path, dim, idx)
            sid == basename(path)
        IN  sid \notin DOMAIN DATA_CACHE =>
              /\ FileAt(files, path, "img").st = "absent" =>
                    /\ c.out = NoDataFigure
                    /\ c.cache = DATA_CACHE
                    /\ ~c.hit /\ c.img_loads = 0 /\ c.mask_loads = 0
              /\ Persisted(files, path) =>
                    /\ ~c.hit /\ c.img_loads = 1 /\ c.mask_loads = 1
                    /\ c.cache = CacheInsert(DATA_CACHE, sid,
                                             [img |-> files[sid].img.val, mask |-> files[sid].mask.val])

\* A call for an uploaded session found no img.npy, while an earlier session
\* whose files inference had written was loaded and cached.
C5_Witness ==
    /\ last.op = "get_slice_fig" /\ last.kind = "no_data"
    /\ last.path \in SessionPaths
    /\ files[basename(last.path)].in.st = "ok"
    /\ DATA_CACHE # <<>>

\* C6: every call returns a figure, one of the three placeholders or an
\* image; where the try block raises, the call returns the error figure.
C6_NothingPropagates ==
    LET P(path, dim, idx) ==
            LET c == Call(path, dim, idx)
                l == Lookup(DATA_CACHE, files, path)
            IN  /\ c.out.kind \in {"no_path", "no_data", "error", "image"}
                /\ (l.st # "no_path" /\ TryBody(l, dim, idx) = Raised) => c.out = ErrorFigure
    IN  \A path \in Paths, dim \in Dims, idx \in Indices : P(path, dim, idx)

\* A call whose load failed (img.npy read, mask.npy missing or truncated)
\* returned the error figure.
C6_Witness ==
    /\ last.op = "get_slice_fig" /\ last.kind = "error"
    /\ ~last.hit /\ last.img_loads = 1 /\ last.mask_loads = 1

\* The calls C7 is about: the pair is at hand (cached, or both arrays load).
Sliceable(path) == Lookup(DATA_CACHE, files, path).st = "ready"
SlicedAxis(path, dim) == AxisSize(Lookup(DATA_CACHE, files, path).pair.img, dim)

\* C7 as stated: for every index outside 0..size-1 the call fails (as an
\* exception or as the error figure) and returns no image of a slice.
C7_OutOfRangeSurfaced ==
    \A path \in SessionPaths, dim \in Dims, idx \in Indices :
        (Sliceable(path) /\ idx \notin 0..(SlicedAxis(path, dim) - 1)) =>
            Call(path, dim, idx).out.kind \in {"raise", "error"}

\* C7 amended: an index idx >= size or idx < -size raises inside the call,
\* which returns the error figure: no exception reaches the caller, and the
\* index is not clamped; an index in -size..-1 is no error, the call returns
\* the image of slice size + idx.
C7_OutOfRange ==
    \A path \in SessionPaths, dim \in Dims, idx \in Indices :
        Sliceable(path) =>
            LET n == SlicedAxis(path, dim)
                c == Call(path, dim, idx)
            IN  /\ (idx >= n \/ idx < 0 - n) => c.out = ErrorFigure
                /\ (idx < 0 /\ idx >= 0 - n) =>
                      c.out.kind = "image" /\ c.out = Call(path, dim, idx + n).out
                /\ (idx >= 0 /\ idx < n) => c.out.kind = "image"

\* A call served from the cache returned the error figure: its index was
\* out of range.
C7_Witness == last.op = "get_slice_fig" /\ last.kind = "error" /\ last.hit

\* The scores of the computed row, compared with a whole number.
Is(r, k) == r.num = k * r.den
Computed == metrics_data # NoRow
Present(vol, label) == \E i \in DOMAIN vol : vol[i] = label
Everywhere(vol, label) == \A i \in DOMAIN vol : vol[i] = label

\* C8 as stated: for identical volumes and a label present in them, dice,
\* iou, precision, recall and specificity are all 1.0, also where every
\* voxel carries the label.
C8_IdenticalAllOne ==
    (Computed /\ pred_vol = gt_vol /\ Present(pred_vol, label_id)) =>
        /\ Is(metrics_data.dice, 1) /\ Is(metrics_data.iou, 1)
        /\ Is(metrics_data.precision, 1) /\ Is(metrics_data.recall, 1)
        /\ Is(metrics_data.specificity, 1)

\* C8 amended: for identical volumes and a label present in them, dice,
\* iou, precision and recall are 1.0; specificity is 1.0 where some voxel
\* does not carry the label and 0.0 where every voxel carries it.
C8_Identical ==
    (Computed /\ pred_vol = gt_vol /\ Present(pred_vol, label_id)) =>
        /\ Is(metrics_data.dice, 1) /\ Is(metrics_data.iou, 1)
        /\ Is(metrics_data.precision, 1) /\ Is(metrics_data.recall, 1)
        /\ Is(metrics_data.sensitivity, 1)
        /\ IF Everywhere(pred_vol, label_id)
           THEN metrics_data.specificity = Zero
           ELSE Is(metrics_data.specificity, 1)

\* The row of a label that fills both of two identical volumes.
C8_Witness ==
    /\ Computed /\ pred_vol = gt_vol
    /\ Len(pred_vol) = MetricVoxels /\ Everywhere(pred_vol, label_id)

\* C9 as stated: for a label absent from both volumes, dice and iou are 1.0
\* and precision, recall, sensitivity and specificity are all 0.0.
C9_AbsentAllZero ==
    (Computed /\ ~Present(pred_vol, label_id) /\ ~Present(gt_vol, label_id)) =>
        /\ metrics_data.dice = One /\ metrics_data.iou = One
        /\ metrics_data.precision = Zero /\ metrics_data.recall = Zero
        /\ metrics_data.sensitivity = Zero /\ metrics_data.specificity = Zero

\* C9 amended: for a label absent from both volumes, dice and iou are 1.0,
\* precision, recall and sensitivity are 0.0, and specificity is 1.0 unless
\* the volumes have no voxel at all, where it is 0.0.
C9_Absent ==
    (Computed /\ ~Present(pred_vol, label_id) /\ ~Present(gt_vol, label_id)) =>
        /\ metrics_data.dice = One /\ metrics_data.iou = One
        /\ metrics_data.precision = Zero /\ metrics_data.recall = Zero
        /\ metrics_data.sensitivity = Zero
        /\ IF Len(pred_vol) = 0
           THEN metrics_data.specificity = Zero
           ELSE Is(metrics_data.specificity, 1)

\* The row of a label that neither of two different volumes holds.
C9_Witness ==
    /\ Computed /\ ~Present(pred_vol, label_id) /\ ~Present(gt_vol, label_id)
    /\ pred_vol # gt_vol /\ label_id \in 1..3

\* C10: where the label's masks in pred and gt are both non-empty and share
\* no voxel, dice, iou, precision and recall are 0.0.
C10_Disjoint ==
    (/\ Computed
     /\ Present(pred_vol, label_id) /\ Present(gt_vol, label_id)
     /\ \A i \in DOMAIN pred_vol : ~(pred_vol[i] = label_id /\ gt_vol[i] = label_id)) =>
        /\ Is(metrics_data.dice, 0) /\ Is(metrics_data.iou, 0)
        /\ Is(metrics_data.precision, 0) /\ Is(metrics_data.recall, 0)

\* The row of a label that pred and gt hold at different voxels only.
C10_Witness ==
    /\ Computed
    /\ Present(pred_vol, label_id) /\ Present(gt_vol, label_id)
    /\ \A i \in DOMAIN pred_vol : ~(pred_vol[i] = label_id /\ gt_vol[i] = label_id)

\* C11: the computed row's dice and iou are the dice and iou of the swapped
\* arguments, its recall is the precision of the swapped arguments and its
\* precision their recall, fallbacks included.
C11_SwapSymmetry ==
    Computed =>
        LET swapped == calculate_precision_recall(gt_vol, pred_vol, label_id)
        IN  /\ metrics_data.dice = calculate_dice_score(gt_vol, pred_vol, label_id)
            /\ metrics_data.iou = calculate_iou(gt_vol, pred_vol, label_id)
            /\ metrics_data.recall = swapped.precision
            /\ metrics_data.precision = swapped.recall

\* A row whose precision and recall differ, one of them a fallback: the
\* label is predicted and absent from the ground truth.
C11_Witness ==
    /\ Computed
    /\ Present(pred_vol, label_id) /\ ~Present(gt_vol, label_id)
    /\ metrics_data.recall = Zero
    /\ calculate_precision_recall(gt_vol, pred_vol, label_id).precision = Zero

\* A score is a fraction with a non-zero denominator, in [0, 1].
InUnit(r) == r.den > 0 /\ r.num >= 0 /\ r.num <= r.den

\* C12: each of the six scores of a computed row is defined and lies in
\* [0, 1], for empty masks and the empty volume too.
C12_ScoresInUnit ==
    Computed =>
        /\ InUnit(metrics_data.dice) /\ InUnit(metrics_data.iou)
        /\ InUnit(metrics_data.precision) /\ InUnit(metrics_data.recall)
        /\ InUnit(metrics_data.sensitivity) /\ InUnit(metrics_data.specificity)

\* A row of the empty volume has been computed.
C12_Witness == Computed /\ Len(pred_vol) = 0 /\ metrics_data.dice = One

\* The ground truth a diagnosis of the current stores would read differs in
\* shape (the 4th axis dropped) from the prediction.
GtMismatch ==
    /\ ~Falsy(session) /\ ~Falsy(gt_session)
    /\ FileAt(files, gt_session, "gt").st = "ok"
    /\ GtReadable(FileAt(files, gt_session, "gt").val)
    /\ GtVolume(FileAt(files, gt_session, "gt").val).shape
         # InferMask(files[basename(session)].in.val).shape

\* C13: a diagnosis that runs through while the ground truth differs in
\* shape from the prediction makes no metric-function call, shows the
\* shape-mismatch error panel, saves the whole prediction, leaves the
\* ground-truth file as it is and returns the outputs of a successful
\* diagnosis; and a shape-mismatch panel on display comes with those outputs.
C13_ShapeMismatch ==
    /\ GtMismatch =>
          LET d == DiagnoseOut(files, session, gt_session, "none", FALSE)
              sid == basename(session)
              orig == InferImg(files[sid].in.val)
              mask == InferMask(files[sid].in.val)
          IN  /\ d.gt_tab = GtError("shape") /\ d.gt_tab.calls = 0
              /\ d.vals = "volumes"
              /\ d.slider_max = <<orig.shape[3] - 1, orig.shape[1] - 1, orig.shape[2] - 1>>
              /\ d.results = session /\ ~d.btn_dl_disabled
              /\ d.files[sid].mask = Holding(mask) /\ d.files[sid].pred = Holding(mask)
              /\ d.files[basename(gt_session)].gt = files[basename(gt_session)].gt
    /\ gt_tab.reason = "shape" =>
          /\ gt_tab.kind = "error" /\ gt_tab.calls = 0
          /\ vals = "volumes" /\ ~Falsy(results) /\ ~btn_dl_disabled
          /\ files[basename(results)].pred.st = "ok"

\* A diagnosis has shown the shape-mismatch panel for a 4-D ground truth.
C13_Witness ==
    /\ gt_tab.kind = "error" /\ gt_tab.reason = "shape"
    /\ ~Falsy(results) /\ results = gt_session
    /\ files[basename(gt_session)].gt = Holding("GB")

\* C14: the metrics on display were computed against the ground truth
\* stored in the directory of the session whose prediction they score.
C14_OwnGroundTruth ==
    gt_tab.kind = "metrics" => gt_tab.gt_of = results

\* d is the directed distance from U to V: every point of U has a point of
\* V within d, and some point of U has none nearer than d.
IsDirected(d, U, V) ==
    /\ \A a \in U : \E b \in V : SqDist(a, b) <= d
    /\ \E a \in U : \A b \in V : SqDist(a, b) >= d

\* C15: the distance computed is +inf when the label's points are empty in
\* pred or in gt; otherwise it is finite, the greater of the two directed
\* distances, equal to the distance of the swapped arguments, and 0 when the
\* two point sets are equal.
C15_Hausdorff ==
    hausdorff # NoDistance =>
        LET P == argwhere(LabelMask(pred_vol, hausdorff.label))
            G == argwhere(LabelMask(gt_vol, hausdorff.label))
        IN  IF P = {} \/ G = {} THEN hausdorff.d = Infinite
            ELSE /\ ~hausdorff.d.inf
                 /\ \E f \in 0..hausdorff.d.sq, b \in 0..hausdorff.d.sq :
                       /\ IsDirected(f, P, G) /\ IsDirected(b, G, P)
                       /\ hausdorff.d.sq \in {f, b}
                 /\ hausdorff.d = calculate_hausdorff_distance(gt_vol, pred_vol, hausdorff.label, 95)
                 /\ (P = G => hausdorff.d.sq = 0)

\* A finite distance whose two directed distances differ has been computed.
C15_Witness ==
    /\ hausdorff # NoDistance /\ ~hausdorff.d.inf /\ hausdorff.d.sq > 0
    /\ LET P == argwhere(LabelMask(pred_vol, hausdorff.label))
           G == argwhere(LabelMask(gt_vol, hausdorff.label))
       IN  directed_hausdorff(P, G) < directed_hausdorff(G, P)

\* The Dice scores of the three labels for the volumes at hand, and the
\* first label in the order 1, 2, 3 whose Dice no other label's exceeds, or
\* undercuts.
DiceOf(label) == calculate_dice_score(pred_vol, gt_vol, label)
FirstMaxDice ==
    CHOOSE i \in 1..3 :
        /\ \A j \in 1..3 : ~Less(DiceOf(i), DiceOf(j))
        /\ \A k \in 1..(i - 1) : \E j \in 1..3 : Less(DiceOf(k), DiceOf(j))
FirstMinDice ==
    CHOOSE i \in 1..3 :
        /\ \A j \in 1..3 : ~Less(DiceOf(j), DiceOf(i))
        /\ \A k \in 1..(i - 1) : \E j \in 1..3 : Less(DiceOf(j), DiceOf(k))

\* C16: the report names as best the first of necrotic core, edema,
\* enhancing that attains the greatest Dice and as worst the first that
\* attains the least; with three equal Dice scores both are necrotic core.
C16_BestWorst ==
    gt_tab.kind = "metrics" =>
        /\ gt_tab.best = RegionNames[FirstMaxDice]
        /\ gt_tab.worst = RegionNames[FirstMinDice]
        /\ (~Less(DiceOf(1), DiceOf(2)) /\ ~Less(DiceOf(2), DiceOf(1))
            /\ ~Less(DiceOf(1), DiceOf(3)) /\ ~Less(DiceOf(3), DiceOf(1))) =>
              gt_tab.best = "Necrotic Core" /\ gt_tab.worst = "Necrotic Core"

\* A report in which edema and enhancing tie for the best Dice, above
\* necrotic core, and edema is named.
C16_Witness ==
    /\ gt_tab.kind = "metrics" /\ gt_tab.best = "Edema" /\ gt_tab.worst = "Necrotic Core"
    /\ DiceOf(2) = DiceOf(3) /\ Less(DiceOf(1), DiceOf(2))

\* C17 as stated: every cached pair equals the arrays now persisted in the
\* session's directory.
C17_CacheEqualsDisk ==
    \A sid \in DOMAIN DATA_CACHE :
        /\ files[sid].img = Holding(DATA_CACHE[sid].img)
        /\ files[sid].mask = Holding(DATA_CACHE[sid].mask)

\* C17 amended: every cached pair is the pair that each completed save of
\* the session writes (the arrays inferred from its in.nii.gz); it equals
\* the persisted img.npy and mask.npy wherever these are readable, and each
\* of them is either readable or was left truncated by a later diagnosis
\* that failed while saving.
C17_CacheCoherent ==
    \A sid \in DOMAIN DATA_CACHE :
        /\ DATA_CACHE[sid] = [img |-> InferImg(files[sid].in.val),
                              mask |-> InferMask(files[sid].in.val)]
        /\ files[sid].img \in {Holding(DATA_CACHE[sid].img), Corrupt}
        /\ files[sid].mask \in {Holding(DATA_CACHE[sid].mask), Corrupt}

\* A cached session has been diagnosed again: successfully (its slider
\* maxima and results are on display), and another cached session by a run
\* that left img.npy truncated.
C17_Witness ==
    /\ DOMAIN DATA_CACHE = SessionIds
    /\ ~Falsy(results) /\ Persisted(files, results)
    /\ \E sid \in SessionIds : files[sid].img = Corrupt

\* C18: whatever the interleaving, a thread about to insert holds the pair
\* inferred for its session; once a thread has inserted, the cache holds the
\* session's entry, that same pair, equal to the persisted arrays where
\* these are readable; and every thread that gets to load has seen a miss.
C18_RaceKeepsOnePair ==
    \A r \in Requests :
        LET sid == basename(req[r].path)
            pair == [img |-> InferImg(files[sid].in.val), mask |-> InferMask(files[sid].in.val)]
        IN  /\ req[r].pc = "insert" => req[r].pair = pair
            /\ req[r].ret = "inserted" =>
                  /\ sid \in DOMAIN DATA_CACHE
                  /\ DATA_CACHE[sid] = pair
                  /\ Persisted(files, req[r].path) =>
                        DATA_CACHE[sid] = [img |-> files[sid].img.val, mask |-> files[sid].mask.val]

\* Two threads have both missed and both loaded the same session, which one
\* of them goes on to insert first.
C18_Witness ==
    /\ req[1].pc = "insert" /\ req[2].pc = "insert"
    /\ req[1].path = req[2].path
    /\ basename(req[1].path) \notin DOMAIN DATA_CACHE
    /\ Persisted(files, req[1].path)

\* The calls that render a slice: the pair is at hand and the index is one
\* Python accepts; the slices they cut, before rotation.
Renders(path, dim, idx) == Sliceable(path) /\ IndexInBounds(idx, SlicedAxis(path, dim))
SourceSlice(path, dim, idx, name) ==
    TakeSlice(Lookup(DATA_CACHE, files, path).pair[name], dim,
              WrapIndex(idx, SlicedAxis(path, dim)))

\* C19: the image of an R x C source slice has C rows and R columns, and
\* its pixel at (r, c) is the colouring of the intensity at [c, C-1-r] of
\* the intensity slice with the label at [c, C-1-r] of the label slice.
C19_QuarterTurn ==
    \A path \in SessionPaths, dim \in Dims, idx \in Indices :
        Renders(path, dim, idx) =>
            LET s == SourceSlice(path, dim, idx, "img")
                ms == SourceSlice(path, dim, idx, "mask")
                R == s.shape[1]
                C == s.shape[2]
                image == Call(path, dim, idx).out.image
            IN  /\ image.shape = <<C, R>>
                /\ DOMAIN image.px = (0..(C - 1)) \X (0..(R - 1))
                /\ \A r \in 0..(C - 1), c \in 0..(R - 1) :
                      image.px[<<r, c>>] =
                          <<Channel(s.data[<<c, C - 1 - r>>], ArrayMax(s), ms.data[<<c, C - 1 - r>>], 1),
                            Channel(s.data[<<c, C - 1 - r>>], ArrayMax(s), ms.data[<<c, C - 1 - r>>], 2),
                            Channel(s.data[<<c, C - 1 - r>>], ArrayMax(s), ms.data[<<c, C - 1 - r>>], 3),
                            255>>

\* A miss has loaded and rendered a slice of a scan whose slices are not
\* square.
C19_Witness ==
    /\ last.op = "get_slice_fig" /\ last.kind = "image" /\ ~last.hit
    /\ files[basename(last.path)].in.val = "A"

\* x is the real number t cut off to an integer, t = n / d.
CutOff(x, n, d) == x * d <= n /\ n < (x + 1) * d

\* C20: in every rendered image, a pixel of label 0 has R = G = B = the gray
\* value 255 * v / (max + eps) cut off; a pixel of label 1, 2 or 3 has in
\* each channel 40% of that gray value plus 60% of the channel of the
\* label's colour (red, blue, yellow), cut off, so it is blended once; and
\* alpha is 255 at every pixel.
C20_Blend ==
    \A path \in SessionPaths, dim \in Dims, idx \in Indices :
        Renders(path, dim, idx) =>
            LET s == rot90(SourceSlice(path, dim, idx, "img"))
                ms == rot90(SourceSlice(path, dim, idx, "mask"))
                D == ArrayMax(s) + Eps
                image == Call(path, dim, idx).out.image
                colour(label) == IF label = 1 THEN <<239, 68, 68>>
                                 ELSE IF label = 2 THEN <<59, 130, 246>> ELSE <<251, 191, 36>>
            IN  \A q \in DOMAIN image.px :
                    /\ image.px[q][4] = 255
                    /\ \A ch \in 1..3 :
                          IF ms.data[q] \in 1..3
                          THEN CutOff(image.px[q][ch],
                                      1020 * s.data[q] + 6 * colour(ms.data[q])[ch] * D, 10 * D)
                          ELSE CutOff(image.px[q][ch], 255 * s.data[q], D)

\* A slice holding a labelled pixel next to background pixels has been
\* rendered from the cache.
C20_Witness ==
    /\ last.op = "get_slice_fig" /\ last.kind = "image" /\ last.hit
    /\ files[basename(last.path)].in.val = "B"

\* C21: every pixel of a normalised slice is a number in [0, 1], so that
\* 255 times it lies in 0..255.
C21_NormalizedInUnit ==
    img_norm # NoNorm => \A q \in DOMAIN img_norm : InUnit(img_norm[q])

\* The sessions of the example: the pair a call for the path slices is the
\* 4 x 4 x 4 volume of intensity 0.5 with the label 1 at voxel (0, 0, 0).
IsExample(path) ==
    /\ Sliceable(path)
    /\ LET pair == Lookup(DATA_CACHE, files, path).pair
       IN  /\ pair.img.shape = <<4, 4, 4>> /\ pair.mask.shape = <<4, 4, 4>>
           /\ \A p \in Coords(<<4, 4, 4>>) :
                 /\ pair.img.data[p] = 500000
                 /\ pair.mask.data[p] = IF p = <<0, 0, 0>> THEN 1 ELSE 0

\* C22 as stated: the axial slice 0 of the example renders as a 4 x 4 image
\* whose pixel at (3, 0), where the quarter-turn puts (0, 0), is 60% red
\* and 40% mid-gray, and whose other pixels are mid-gray (127 or 128 in
\* each channel).
C22_MidGray ==
    \A path \in SessionPaths :
        IsExample(path) =>
            LET image == Call(path, 2, 0).out.image
            IN  /\ image.shape = <<4, 4>>
                /\ \A q \in DOMAIN image.px :
                      IF q = <<3, 0>>
                      THEN /\ image.px[q][1] = 194
                           /\ image.px[q][2] \in 91..92 /\ image.px[q][3] \in 91..92
                           /\ image.px[q][4] = 255
                      ELSE \E g \in 127..128 : image.px[q] = <<g, g, g, 255>>

\* C22 amended: the slice is normalised by its own maximum, so the uniform
\* intensity 0.5 renders as 255 * 0.5 / 0.500001 cut off, 254, not as
\* mid-gray: the pixel at (3, 0) is 40% of that gray plus 60% red,
\* (245, 142, 142), and every other pixel is (254, 254, 254); alpha is 255.
C22_Example ==
    \A path \in SessionPaths :
        IsExample(path) =>
            LET image == Call(path, 2, 0).out.image
            IN  /\ image.shape = <<4, 4>>
                /\ DOMAIN image.px = (0..3) \X (0..3)
                /\ \A q \in DOMAIN image.px :
                      image.px[q] = IF q = <<3, 0>> THEN <<245, 142, 142, 255>>
                                    ELSE <<254, 254, 254, 255>>

\* An axial slice of the example has been loaded from disk and rendered.
C22_Witness ==
    /\ last.op = "get_slice_fig" /\ last.kind = "image" /\ ~last.hit
    /\ last.path \in SessionPaths /\ IsExample(last.path)

\* C23: the sensitivity of a computed row is its recall, the recall that
\* calculate_precision_recall returns; its specificity is tn / (tn + fp),
\* tn counting the voxels that carry the label in neither volume and fp
\* those that carry it in pred alone, or 0.0 when tn + fp is 0.
C23_SensitivityIsRecall ==
    Computed =>
        LET tn == Cardinality({i \in DOMAIN pred_vol : pred_vol[i] # label_id /\ gt_vol[i] # label_id})
            fp == Cardinality({i \in DOMAIN pred_vol : pred_vol[i] = label_id /\ gt_vol[i] # label_id})
        IN  /\ metrics_data.sensitivity = metrics_data.recall
            /\ metrics_data.sensitivity = calculate_precision_recall(pred_vol, gt_vol, label_id).recall
            /\ metrics_data.specificity = IF tn + fp = 0 THEN Zero ELSE Ratio(tn, tn + fp)

\* A row of a label that fills the ground truth and part of the prediction:
\* the sensitivity is strictly between 0 and 1 and there are no negatives.
C23_Witness ==
    /\ Computed /\ Len(gt_vol) > 0 /\ Everywhere(gt_vol, label_id)
    /\ Less(Zero, metrics_data.sensitivity) /\ Less(metrics_data.sensitivity, One)
    /\ metrics_data.specificity = Zero

\* C24: the distance computed is the one computed for every other
\* percentile, and it is the full maximum: where finite, every point of
\* either point set has a point of the other within it, none left out, and
\* some point has none nearer.
C24_PercentileIgnored ==
    hausdorff # NoDistance =>
        LET P == argwhere(LabelMask(pred_vol, hausdorff.label))
            G == argwhere(LabelMask(gt_vol, hausdorff.label))
            d == hausdorff.d
        IN  /\ \A p \in Percentiles :
                  calculate_hausdorff_distance(pred_vol, gt_vol, hausdorff.label, p) = d
            /\ ~d.inf =>
                  /\ \A a \in P : \E b \in G : SqDist(a, b) <= d.sq
                  /\ \A b \in G : \E a \in P : SqDist(a, b) <= d.sq
                  /\ \/ \E a \in P : \A b \in G : SqDist(a, b) >= d.sq
                     \/ \E b \in G : \A a \in P : SqDist(a, b) >= d.sq

\* A distance computed with the percentile 50 for point sets of which one
\* point is farther from the other set than the rest: a truncation would
\* leave it out.
C24_Witness ==
    /\ hausdorff # NoDistance /\ hausdorff.percentile = 50
    /\ ~hausdorff.d.inf /\ hausdorff.d.sq > 0
    /\ LET P == argwhere(LabelMask(pred_vol, hausdorff.label))
           G == argwhere(LabelMask(gt_vol, hausdorff.label))
       IN  \E a \in P : \E b \in G : SqDist(a, b) < hausdorff.d.sq

\* C25: for every path whose base name is a cached id, whatever its
\* directory, the call is a hit that makes no os.path.exists and no np.load
\* call, leaves the cache as it is and returns what the cached pair of that
\* id renders; a path ending in a separator is looked up, and on a miss
\* stored, under the empty base name; so two paths of one base name get
\* the same figure whatever their directories hold.
C25_BasenameOnly ==
    \A path \in SessionPaths \cup AliasPaths, dim \in Dims, idx \in Indices :
        LET c == Call(path, dim, idx)
            key == IF path \in TrailingPaths THEN EmptyName ELSE path[2]
        IN  /\ key \in DOMAIN DATA_CACHE =>
                  /\ c.hit /\ ~c.stat /\ c.img_loads = 0 /\ c.mask_loads = 0
                  /\ c.cache = DATA_CACHE
                  /\ c.out = Catch(SliceStep(DATA_CACHE[key], dim, idx))
                  /\ \A other \in SessionPaths \cup AliasPaths :
                        basename(other) = key => Call(other, dim, idx).out = c.out
            /\ (key \notin DOMAIN DATA_CACHE /\ Persisted(files, path)) =>
                  /\ ~c.hit
                  /\ DOMAIN c.cache = DOMAIN DATA_CACHE \cup {key}
                  /\ c.cache[key] = [img |-> FileAt(files, path, "img").val,
                                     mask |-> FileAt(files, path, "mask").val]

\* A request for a session directory written with a trailing separator has
\* stored its arrays under the empty base name, and a request for another
\* session's directory, written the same way, is now served from that
\* entry, with no storage access, an image of arrays that are not its own.
C25_Witness ==
    /\ EmptyName \in DOMAIN DATA_CACHE
    /\ \E path \in TrailingPaths :
          /\ Persisted(files, path)
          /\ DATA_CACHE[EmptyName].img # FileAt(files, path, "img").val
          /\ Call(path, 2, 0).hit /\ ~Call(path, 2, 0).stat
          /\ Call(path, 2, 0).out.kind = "image"

\* C26: a call for a session that is not cached and whose arrays both load
\* leaves the pair in the cache whatever it returns: where the index is out
\* of range it returns the error figure and the cache has nonetheless
\* gained the session, and any call that follows for the session is a hit
\* that loads nothing.
C26_InsertBeforeSlice ==
    \A path \in SessionPaths, dim \in Dims, idx \in Indices :
        LET sid == basename(path)
            c == Call(path, dim, idx)
        IN  (sid \notin DOMAIN DATA_CACHE /\ Persisted(files, path)) =>
              /\ sid \in DOMAIN c.cache
              /\ c.cache[sid] = [img |-> files[sid].img.val, mask |-> files[sid].mask.val]
              /\ c.cache # DATA_CACHE
              /\ ~IndexInBounds(idx, AxisSize(files[sid].img.val, dim)) => c.out = ErrorFigure
              /\ \A dim2 \in Dims, idx2 \in Indices :
                    LET c2 == SliceCall(c.cache, files, path, dim2, idx2)
                    IN  c2.hit /\ c2.img_loads = 0 /\ c2.mask_loads = 0

\* A miss that loaded both arrays returned the error figure, and the
\* session is cached.
C26_Witness ==
    /\ last.op = "get_slice_fig" /\ last.kind = "error" /\ ~last.hit
    /\ last.img_loads = 1 /\ last.mask_loads = 1
    /\ Persisted(files, last.path)
    /\ basename(last.path) \in DOMAIN DATA_CACHE

\* C27: while the results store holds a path, that of the last diagnosis,
\* which was successful, the maxima of the axial, sagittal and coronal
\* sliders are the sizes of axes 2, 0 and 1 of the stored img.npy minus one;
\* the three callbacks pass the axes 2, 0 and 1; so every value in 0..max of
\* a view is an index of the axis the view slices, and the callback called
\* with it returns an image; and a diagnosis of the current session that
\* runs through returns those maxima for the volume it stores.
C27_SliderMaxima ==
    /\ ViewDims = <<2, 0, 1>>
    /\ ~Falsy(results) =>
          LET img == files[basename(results)].img
          IN  /\ img.st = "ok"
              /\ slider_max = <<img.val.shape[3] - 1, img.val.shape[1] - 1, img.val.shape[2] - 1>>
              /\ \A view \in 1..3 : \A v \in 0..slider_max[view] :
                    /\ v < AxisSize(img.val, ViewDims[view])
                    /\ v \in Indices => Call(results, ViewDims[view], v).out.kind = "image"
    /\ ~Falsy(session) =>
          LET d == DiagnoseOut(files, session, gt_session, "none", FALSE)
              img == d.files[basename(session)].img
          IN  /\ img.st = "ok"
              /\ d.slider_max = <<img.val.shape[3] - 1, img.val.shape[1] - 1, img.val.shape[2] - 1>>

\* After a successful diagnosis of a scan whose three axes differ in size,
\* a slice of the diagnosed session has been rendered from the cache.
C27_Witness ==
    /\ ~Falsy(results) /\ files[basename(results)].in.val = "A"
    /\ slider_max = <<2, 0, 1>>
    /\ last.op = "get_slice_fig" /\ last.path = results /\ last.kind = "image" /\ last.hit

\* C28: while the download button is enabled, the results store holds the
\* path of a session directory in which img.npy, mask.npy and pred.nii.gz
\* are as the last diagnosis, which ran through, wrote them; the button is
\* disabled exactly while results is None; and a diagnosis of the current
\* session that raises, wherever it does, returns None for results and
\* disables the button.
C28_DownloadEnabled ==
    /\ btn_dl_disabled <=> results = None
    /\ ~btn_dl_disabled =>
          /\ results \in SessionPaths
          /\ LET dir == files[basename(results)]
                 mask == InferMask(dir.in.val)
             IN  /\ dir.in.st = "ok"
                 /\ dir.img = Holding(InferImg(dir.in.val))
                 /\ dir.mask = Holding(mask)
                 /\ dir.pred = Holding(mask)
    /\ ~Falsy(session) =>
          \A stage \in FailPoints \ {"none"}, truncated \in BOOLEAN :
              LET d == DiagnoseOut(files, session, gt_session, stage, truncated)
              IN  d.results = None /\ d.btn_dl_disabled

\* The download button is enabled for a diagnosed session after the
\* diagnosis of an earlier session failed in the save of pred.nii.gz and
\* left it truncated.
C28_Witness ==
    /\ ~btn_dl_disabled /\ results \in SessionPaths
    /\ \E sid \in SessionIds : files[sid].pred = Corrupt /\ SessionPath(sid) # results

\* C29: a run of diagnose on the current session that raises in the try
\* block, before the saves (model load, preprocessing, inference), in one of
\* the three saves or after them (chart building), returns a response and
\* raises nothing: "Error" in the volume fields, the default slider maxima,
\* None for results, the download button disabled, the progress bar at 0%,
\* the timer disabled, the failure status and the empty ground-truth panel;
\* and while the volume fields read "Error" the stores and outputs are
\* those of that response, the status apart once an upload has replaced it.
C29_SafeDefaults ==
    /\ ~Falsy(session) =>
          \A stage \in FailPoints \ {"none"}, truncated \in BOOLEAN :
              LET d == DiagnoseOut(files, session, gt_session, stage, truncated)
              IN  /\ d.kind = "return"
                  /\ d.vals = "Error"
                  /\ d.slider_max = <<100, 100, 100>>
                  /\ d.results = None /\ d.btn_dl_disabled
                  /\ d.progress_width = <<"0", "%">> /\ d.interval_disabled
                  /\ d.upload_status = "Diagnosis failed"
                  /\ d.gt_tab = EmptyGtTab
    /\ vals = "Error" =>
          /\ results = None /\ btn_dl_disabled
          /\ progress_width = <<"0", "%">> /\ interval_disabled
          /\ slider_max = <<100, 100, 100>>
          /\ gt_tab = EmptyGtTab
          /\ upload_status \in {"Diagnosis failed", "Successfully loaded", "Invalid file type",
                                 "Upload failed"}

\* A diagnosis of a session with a ground truth has failed while saving
\* mask.npy, and its response is on display.
C29_Witness ==
    /\ vals = "Error" /\ upload_status = "Diagnosis failed"
    /\ ~Falsy(session) /\ gt_session = session
    /\ files[basename(session)].img.st = "ok" /\ files[basename(session)].mask = Corrupt

\* A step runs the callback cb; the width of the bar as a number.
Ran(cb) == cb \in triggered /\ cb \notin triggered'
Width == int(rstrip(progress_width, "%"))

\* What C30 says of a step: the click's animate_progress sets the width to
\* "10%" and its start_timer enables the timer; a tick below 90 raises the
\* width by 5, to 90 at most, and a tick at 90 or above leaves the style as
\* it is, at "100%" in particular; a run of diagnose on a session disables
\* the timer and sets the width to "100%" with its results, or to "0%" with
\* "Error" in the volume fields.
C30_Step ==
    /\ Ran(<<"animate_progress", "btn-diagnose">>) => progress_width' = <<"1", "0", "%">>
    /\ Ran(<<"start_timer", "btn-diagnose">>) => ~interval_disabled'
    /\ Ran(<<"animate_progress", "progress-interval">>) =>
          /\ Width < 90 => Width' = Width + 5 /\ Width' <= 90
          /\ Width >= 90 => progress_width' = progress_width
          /\ progress_width = <<"1", "0", "0", "%">> => progress_width' = <<"1", "0", "0", "%">>
    /\ (Ran(<<"diagnose", "btn-diagnose">>) /\ ~Falsy(session)) =>
          /\ interval_disabled'
          /\ IF results' # None
             THEN progress_width' = <<"1", "0", "0", "%">> /\ vals' = "volumes"
             ELSE progress_width' = <<"0", "%">> /\ vals' = "Error"

\* C30: every step of the progress bar follows the protocol.
C30_ProgressProtocol == [][C30_Step]_vars

\* While diagnose runs, the timer's ticks have raised the bar from 10% to
\* the cap of 90%, and another tick is on its way.
C30_Witness ==
    /\ progress_width = <<"9", "0", "%">>
    /\ <<"diagnose", "btn-diagnose">> \in triggered
    /\ <<"animate_progress", "progress-interval">> \in triggered
    /\ ~interval_disabled

====
